---- MODULE Spec2Model ----
(***************************************************************************)
(* Model of the lexitrail backend's /users resource                        *)
(* (backend/app/routes/users.py) and of the test utilities' fixture        *)
(* factories, cleanup and teardown (backend/tests/utils.py).               *)
(*                                                                         *)
(* Two specifications:                                                     *)
(*   Spec       the /users routes served by several workers.  A handler's  *)
(*              lookup and its commit are separate round trips to the      *)
(*              database with nothing held in between, so they are         *)
(*              separate steps and other requests run between them.        *)
(*   SpecClear  the test utilities, one commit (and inside clear_database  *)
(*              one statement) per step.                                   *)
(***************************************************************************)
EXTENDS Integers, Sequences, FiniteSets, Bags

VARIABLES
    User,           \* the User table: a sequence of rows [email |-> e]
    pending,        \* Spec: the bag of requests past their checks, before their commits
    last,           \* Spec: the last request answered, with its response
    Wordset,        \* SpecClear: set of rows [wordset_id, description]
    Word,           \* SpecClear: set of rows [word_id, word, wordset_id, def1, def2]
    UserWord,       \* SpecClear: set of rows [user_id, word_id, is_included, recall_state]
    RecallHistory,  \* SpecClear: set of rows [user_id, word_id]
    nextId,         \* SpecClear: the auto-increment counters [wordset, word]
    schema,         \* SpecClear: whether the test database exists
    temp_db_name,   \* SpecClear: the name of the test database
    clock,          \* SpecClear: time.time(), in whole seconds
    call,           \* SpecClear: the fixture factory call in progress
    clearPc,        \* SpecClear: position inside clear_database
    saved           \* SpecClear: the tables as of the start of clear_database's transaction

vars == <<User, pending, last, Wordset, Word, UserWord, RecallHistory, nextId,
          schema, temp_db_name, clock, call, clearPc, saved>>

routeVars == <<pending, last>>
tableVars == <<Wordset, Word, UserWord, RecallHistory, nextId>>
fixtureVars == <<Wordset, Word, UserWord, RecallHistory, nextId, schema,
                 temp_db_name, clock, call, clearPc, saved>>

(***************************************************************************)
(* Bounds                                                                  *)
(***************************************************************************)
NumEmails == 2

NumWorkers == 2

MaxId == 2

MaxClock == 2

EmailNames == <<"a@example.com", "b@example.com", "c@example.com", "d@example.com">>

Emails == {EmailNames[i] : i \in 1..NumEmails}

\* Python's None where an object is expected, and the value of a request part
\* the route does not have.
None == [none |-> TRUE]

NoPath == ""

(***************************************************************************)
(* The ORM session over the User table                                     *)
(***************************************************************************)
RECURSIVE first(_, _)
\* User.query.filter_by(email=e).first(): the first row with that email, or None.
first(db, e) ==
    IF db = <<>> THEN None
    ELSE IF Head(db).email = e THEN Head(db)
    ELSE first(Tail(db), e)

\* db.session.get(User, email): the row with that primary key, or None.
session_get(db, email) == first(db, email)

\* User.query.all(): SELECT ... FROM user without ORDER BY.  The rows come in an
\* order the engine chooses: every arrangement of the table's rows is a result.
query_all(db) ==
    LET n == Len(db)
        orders == {p \in [1..n -> 1..n] : \A i, j \in 1..n : p[i] = p[j] => i = j}
    IN  {[i \in 1..n |-> db[p[i]]] : p \in orders}

\* a User table whose email column has no primary key or unique index
PrimaryKeyConflict_Off(db, e) == FALSE

\* The schema's primary key on User.email: a second row with the email is refused.
PrimaryKeyConflict(db, e) == \E i \in 1..Len(db) : db[i].email = e

\* db.session.add(User(email=e)); db.session.commit()
commit_insert(db, e) ==
    IF PrimaryKeyConflict(db, e)
    THEN [ok |-> FALSE, db |-> db]
    ELSE [ok |-> TRUE, db |-> Append(db, [email |-> e])]

\* user.email = new; db.session.commit().  The unit of work sends an UPDATE only
\* for an attribute whose value changed: the same email is no statement at all.
\* Otherwise UPDATE ... SET email = new WHERE email = old: no row matched (the
\* row was deleted or renamed meanwhile) is the ORM's stale-data error, a taken
\* email the integrity error.
commit_update(db, old, new) ==
    IF new = old
    THEN [ok |-> TRUE, db |-> db]
    ELSE IF ~ \E i \in 1..Len(db) : db[i].email = old
    THEN [ok |-> FALSE, db |-> db]
    ELSE IF PrimaryKeyConflict(db, new)
    THEN [ok |-> FALSE, db |-> db]
    ELSE [ok |-> TRUE,
          db |-> [i \in 1..Len(db) |->
                    IF db[i].email = old THEN [email |-> new] ELSE db[i]]]

\* commit_delete deleting by query without the filter: every row goes.
commit_delete_All(db, e) == [ok |-> TRUE, db |-> <<>>]

\* db.session.delete(user); db.session.commit(): DELETE ... WHERE email = e.
\* No row matched is a warning of the ORM, not an error.
commit_delete(db, e) ==
    [ok |-> TRUE, db |-> SelectSeq(db, LAMBDA r : r.email # e)]

(***************************************************************************)
(* Responses                                                               *)
(***************************************************************************)
Response(status, body, db) == [status |-> status, body |-> body, db |-> db]

\* An exception that escapes the handler: the framework answers 500 and the
\* session is rolled back.
InternalServerError(db) ==
    Response(500, [message |-> "Internal Server Error"], db)

\* app.utils.validate_user_access: a 403 response when the authenticated email
\* differs from the path email, else None.
validate_user_access(auth, email) ==
    IF auth # email
    THEN [status |-> 403, body |-> [message |-> "Unauthorized"]]
    ELSE None

(***************************************************************************)
(* The handlers.  create_user, update_user and delete_user are each two    *)
(* parts: the checks, which give the response of an early return or None,  *)
(* and the commit.                                                         *)
(***************************************************************************)
\* create_user without the existence check: the insert is always attempted.
create_user_check_NoExistence(db, auth, data) ==
    IF auth # data.email
    THEN Response(403, [message |-> "Unauthorized: You can only create yourself"], db)
    ELSE None

\* create_user up to the existence check
create_user_check(db, auth, data) ==
    IF auth # data.email
    THEN Response(403, [message |-> "Unauthorized: You can only create yourself"], db)
    ELSE IF first(db, data.email) # None
    THEN Response(200, [message |-> "User already exists"], db)
    ELSE None

\* create_user from the insert on
create_user_commit(db, data) ==
    LET c == commit_insert(db, data.email)
    IN  IF c.ok
        THEN Response(201, [message |-> "User created successfully"], c.db)
        ELSE InternalServerError(db)

\* get_user looking the row up before it validates the caller.
get_user_ExistenceFirst(db, auth, email) ==
    LET validation_response == validate_user_access(auth, email)
        user == session_get(db, email)
    IN  IF user = None
        THEN Response(404, [message |-> "User not found", email |-> email], db)
        ELSE IF validation_response # None
        THEN Response(validation_response.status, validation_response.body, db)
        ELSE Response(200, [email |-> user.email], db)

get_user(db, auth, email) ==
    LET validation_response == validate_user_access(auth, email)
        user == session_get(db, email)
    IN  IF validation_response # None
        THEN Response(validation_response.status, validation_response.body, db)
        ELSE IF user = None
        THEN Response(404, [message |-> "User not found", email |-> email], db)
        ELSE Response(200, [email |-> user.email], db)

\* the checks of update_user and delete_user without the `user is None` return
owner_check_NoNoneCheck(db, auth, email) ==
    LET validation_response == validate_user_access(auth, email)
    IN  IF validation_response # None
        THEN Response(validation_response.status, validation_response.body, db)
        ELSE None

\* update_user and delete_user up to the lookup
owner_check(db, auth, email) ==
    LET validation_response == validate_user_access(auth, email)
        user == session_get(db, email)
    IN  IF validation_response # None
        THEN Response(validation_response.status, validation_response.body, db)
        ELSE IF user = None
        THEN Response(404, [message |-> "User not found", email |-> email], db)
        ELSE None

\* update_user from the assignment on
update_user_commit(db, email, data) ==
    LET c == commit_update(db, email, data.email)
    IN  IF c.ok
        THEN Response(200, [message |-> "User updated successfully"], c.db)
        ELSE InternalServerError(db)

\* delete_user from the delete on
delete_user_commit(db, email) ==
    LET c == commit_delete(db, email)
    IN  IF c.ok
        THEN Response(200, [message |-> "User deleted successfully"], c.db)
        ELSE InternalServerError(db)

\* get_users listing the first row only (.first() for .all()).
get_users_FirstOnly(db) ==
    { LET users == IF all = <<>> THEN <<>> ELSE <<Head(all)>>
      IN  Response(200, [i \in 1..Len(users) |-> [email |-> users[i].email]], db)
      : all \in query_all(db) }

\* get_users: the responses it can give, one for each order of the rows read
get_users(db) ==
    { Response(200, [i \in 1..Len(users) |-> [email |-> users[i].email]], db)
      : users \in query_all(db) }

(***************************************************************************)
(* Spec: the routes served by the workers                                  *)
(***************************************************************************)
\* the number of rows of db with email e
Count(db, e) == Cardinality({i \in 1..Len(db) : db[i].email = e})

Rows(db) == {db[i] : i \in 1..Len(db)}

\* a worker is free to take a request
FreeWorker == BagCardinality(pending) < NumWorkers

NoRequest ==
    [op |-> "none", auth |-> NoPath, path |-> NoPath, data |-> None,
     existed |-> FALSE, status |-> 0, body |-> None]

\* A request and its response.  existed: whether the table held a row for the
\* request's email (the body email of create_user, the path email of the others)
\* when the handler ran its checks.
Served(op, auth, path, data, existed, r) ==
    [op |-> op, auth |-> auth, path |-> path, data |-> data,
     existed |-> existed, status |-> r.status, body |-> r.body]

\* the handler answers without a commit
Return(op, auth, path, data, existed, r) ==
    /\ last' = Served(op, auth, path, data, existed, r)
    /\ UNCHANGED <<User, pending>>

\* the handler passed its checks and goes on to its commit
Proceed(op, auth, path, data, existed) ==
    /\ pending' = pending (+) SetToBag({[op |-> op, auth |-> auth, path |-> path,
                                          data |-> data, existed |-> existed]})
    /\ UNCHANGED <<User, last>>

CreateUserRead ==
    /\ FreeWorker
    /\ \E auth \in Emails, e \in Emails :
         LET data == [email |-> e]
             early == create_user_check(User, auth, data)
             existed == Count(User, e) > 0
         IN  IF early # None
             THEN Return("create_user", auth, NoPath, data, existed, early)
             ELSE Proceed("create_user", auth, NoPath, data, existed)
    /\ UNCHANGED fixtureVars

UpdateUserRead ==
    /\ FreeWorker
    /\ \E auth \in Emails, email \in Emails, e \in Emails :
         LET data == [email |-> e]
             early == owner_check(User, auth, email)
             existed == Count(User, email) > 0
         IN  IF early # None
             THEN Return("update_user", auth, email, data, existed, early)
             ELSE Proceed("update_user", auth, email, data, existed)
    /\ UNCHANGED fixtureVars

DeleteUserRead ==
    /\ FreeWorker
    /\ \E auth \in Emails, email \in Emails :
         LET early == owner_check(User, auth, email)
             existed == Count(User, email) > 0
         IN  IF early # None
             THEN Return("delete_user", auth, email, None, existed, early)
             ELSE Proceed("delete_user", auth, email, None, existed)
    /\ UNCHANGED fixtureVars

GetUser ==
    /\ FreeWorker
    /\ \E auth \in Emails, email \in Emails :
         Return("get_user", auth, email, None, Count(User, email) > 0,
                get_user(User, auth, email))
    /\ UNCHANGED fixtureVars

GetUsers ==
    /\ FreeWorker
    /\ \E auth \in Emails, r \in get_users(User) :
         Return("get_users", auth, NoPath, None, FALSE, r)
    /\ UNCHANGED fixtureVars

\* the commit of the request p and its response
Committed(p, r) ==
    /\ User' = r.db
    /\ last' = Served(p.op, p.auth, p.path, p.data, p.existed, r)
    /\ pending' = pending (-) SetToBag({p})
    /\ UNCHANGED fixtureVars

CreateUserCommit ==
    \E p \in BagToSet(pending) :
        /\ p.op = "create_user"
        /\ Committed(p, create_user_commit(User, p.data))

UpdateUserCommit ==
    \E p \in BagToSet(pending) :
        /\ p.op = "update_user"
        /\ Committed(p, update_user_commit(User, p.path, p.data))

DeleteUserCommit ==
    \E p \in BagToSet(pending) :
        /\ p.op = "delete_user"
        /\ Committed(p, delete_user_commit(User, p.path))

NoCall == [fn |-> "none"]

\* generate_temp_db_name: f"test_db_{int(time.time())}", one name per second
generate_temp_db_name(timestamp) == <<"test_db_", timestamp>>

\* the test database just created by setup_test_app: the tables exist and are empty
FreshDatabase ==
    /\ User = <<>>
    /\ Wordset = {} /\ Word = {} /\ UserWord = {} /\ RecallHistory = {}
    /\ nextId = [wordset |-> 1, word |-> 1]
    /\ schema = "created"
    /\ clock = 0
    /\ temp_db_name = generate_temp_db_name(clock)
    /\ call = NoCall
    /\ clearPc = 0
    /\ saved = None

Init ==
    /\ FreshDatabase
    /\ pending = EmptyBag
    /\ last = NoRequest

Next ==
    \/ CreateUserRead
    \/ UpdateUserRead
    \/ DeleteUserRead
    \/ GetUser
    \/ GetUsers
    \/ CreateUserCommit
    \/ UpdateUserCommit
    \/ DeleteUserCommit

Spec == Init /\ [][Next]_vars

(***************************************************************************)
(* Properties of Spec                                                      *)
(***************************************************************************)
PathOps == {"get_user", "update_user", "delete_user"}

\* a step in which a request is answered (not one in which a handler only
\* passes its checks)
AnswerStep == BagCardinality(pending') <= BagCardinality(pending)

\* C1: create_user by identity e with body email e, called while a row for e
\* exists, answers 200 (not 409 or 500), and the table then holds exactly one
\* row for e.
C1_DuplicateCreate ==
    (/\ last.op = "create_user"
     /\ last.auth = last.data.email
     /\ last.existed)
    => (/\ last.status = 200
        /\ Count(User, last.data.email) = 1)

\* a create of an existing user by that user was answered 200, one row is held
C1_Witness ==
    /\ last.op = "create_user" /\ last.status = 200
    /\ last.auth = last.data.email /\ last.existed
    /\ Count(User, last.data.email) = 1

\* C2: create_user by identity e with body email e, called while no row for e
\* exists, answers 201 and inserts the row; get_user for e by e directly
\* afterwards answers 200 with body email e.
C2_CreateThenGet ==
    [][AnswerStep =>
         \A e \in Emails :
           /\ (/\ last'.op = "create_user"
               /\ last'.auth = e
               /\ last'.data.email = e
               /\ ~ last'.existed)
              => (/\ last'.status = 201
                  /\ Count(User', e) = 1)
           /\ (/\ last.op = "create_user" /\ last.status = 201
               /\ last.data.email = e
               /\ last'.op = "get_user"
               /\ last'.auth = e /\ last'.path = e)
              => (/\ last'.status = 200
                  /\ last'.body = [email |-> e])]_vars

\* C3: get_user, update_user and delete_user answer 403 whenever the
\* authenticated email differs from the path email, whether or not a row for
\* the path email exists.
C3_Forbidden ==
    (last.op \in PathOps /\ last.auth # last.path) => last.status = 403

\* an update by another identity of an email that has a row was answered 403
C3_Witness ==
    /\ last.op = "update_user" /\ last.auth # last.path
    /\ last.existed
    /\ last.status = 403

\* C4: get_user, update_user and delete_user for a path email e that has no row,
\* by identity e, answer 404 with a body whose email is e.
C4_NotFound ==
    (/\ last.op \in PathOps
     /\ last.auth = last.path
     /\ ~ last.existed)
    => (/\ last.status = 404
        /\ last.body = [message |-> "User not found", email |-> last.path])

\* an update by the owner of an email with no row was answered 404 with the email
C4_Witness ==
    /\ last.op = "update_user" /\ last.auth = last.path
    /\ ~ last.existed
    /\ last.status = 404 /\ last.body.email = last.path

\* C5: every request to the five routes ends with a status in {200, 201, 403, 404}.
C5_StatusCodes ==
    last.op # "none" => last.status \in {200, 201, 403, 404}

\* C6: a row for email e comes into the User table only by a request
\* authenticated as e, and goes from it (updated or deleted) only by a request
\* authenticated as e.
C6_OwnerOnly ==
    [][\A e \in Emails :
         /\ Count(User', e) > Count(User, e) => last'.auth = e
         /\ Count(User', e) < Count(User, e) => last'.auth = e]_vars

\* C7: get_users answers an array as long as the table, whose entries are
\* exactly the {email} objects of the rows, one per row.
C7_GetUsers ==
    last.op = "get_users" =>
        /\ last.status = 200
        /\ Len(last.body) = Len(User)
        /\ \A i \in 1..Len(last.body) : DOMAIN last.body[i] = {"email"}
        /\ \A e \in Emails :
             Cardinality({i \in 1..Len(last.body) : last.body[i].email = e})
               = Count(User, e)

\* get_users answered while the table held two rows, in another order than the
\* rows were inserted in
C7_Witness ==
    /\ last.op = "get_users"
    /\ Len(User) >= 2
    /\ Len(last.body) = Len(User)
    /\ \E i \in 1..Len(User) : last.body[i].email # User[i].email

\* C9: under any interleaving of the requests the User table holds at most one
\* row per email; two creates of one email that both passed the existence check
\* before either committed leave one row.
C9_UniqueEmail ==
    \A e \in Emails : Count(User, e) <= 1

\* a create that had passed its existence check found the email taken at its
\* commit and was answered 500; the table holds the one row
C9_Witness ==
    /\ last.op = "create_user" /\ last.status = 500
    /\ ~ last.existed
    /\ Count(User, last.data.email) = 1

\* C10: a create_user answered 403 or 200, a get_user, update_user or delete_user
\* answered 403 or 404, and every get_user and get_users, leave the rows of the
\* table as they were; a delete_user answered 200 removes no row but that of its
\* email, a create_user answered 201 adds the row of its email and no other.
C10_Frame ==
    [][AnswerStep =>
         /\ (last'.op = "create_user" /\ last'.status \in {403, 200})
            => User' = User
         /\ (last'.op \in PathOps /\ last'.status \in {403, 404})
            => User' = User
         /\ last'.op \in {"get_user", "get_users"}
            => User' = User
         /\ (last'.op = "delete_user" /\ last'.status = 200)
            => (/\ User' = SelectSeq(User, LAMBDA r : r.email # last'.path)
                /\ Count(User', last'.path) = 0)
         /\ (last'.op = "create_user" /\ last'.status = 201)
            => User' = Append(User, [email |-> last'.data.email])]_vars

\* a delete answered 200 that left another user's row in the table
C10_Witness ==
    /\ last.op = "delete_user" /\ last.status = 200
    /\ Len(User) >= 1
    /\ Count(User, last.path) = 0

(***************************************************************************)
(* SpecClear: the test utilities over the five tables of the test          *)
(* database.  The database refuses a statement that would leave a row      *)
(* referencing a missing row.                                              *)
(***************************************************************************)
Descriptions == {"Test Wordset", "Other Wordset"}

WordNames == {"Test Word"}

\* word_name=None, the default of the factories' word_name parameter
NoWordName == "None"

\* f'Test Word {datetime.utcnow().timestamp()}': the clock differs from call to
\* call, as the word's id does
GeneratedNames == <<"Test Word 1.0", "Test Word 2.0", "Test Word 3.0", "Test Word 4.0">>

\* the database: the five tables, the auto-increment counters, whether it
\* exists, and its name
DB ==
    [User |-> User, Wordset |-> Wordset, Word |-> Word, UserWord |-> UserWord,
     RecallHistory |-> RecallHistory, nextId |-> nextId, schema |-> schema,
     name |-> temp_db_name]

\* the rows of a table of d, by the table's name
TableRows(d, t) == IF t = "User" THEN Rows(d.User) ELSE d[t]

\* the schema's foreign keys
ForeignKeys ==
    { [from |-> "Word", col |-> "wordset_id", to |-> "Wordset", key |-> "wordset_id"],
      [from |-> "UserWord", col |-> "user_id", to |-> "User", key |-> "email"],
      [from |-> "UserWord", col |-> "word_id", to |-> "Word", key |-> "word_id"],
      [from |-> "RecallHistory", col |-> "user_id", to |-> "User", key |-> "email"],
      [from |-> "RecallHistory", col |-> "word_id", to |-> "Word", key |-> "word_id"] }

\* every foreign key of every row names a row that exists
ReferentialIntegrity(d) ==
    \A fk \in ForeignKeys :
        \A r \in TableRows(d, fk.from) :
            \E t \in TableRows(d, fk.to) : t[fk.key] = r[fk.col]

\* db.session.query(T).delete(): DELETE FROM T, refused when the table does not
\* exist or when a remaining row references a row of T.
query_delete(d, t) ==
    LET after == [d EXCEPT ![t] = IF t = "User" THEN <<>> ELSE {}]
    IN  IF d.schema # "created"
        THEN [ok |-> FALSE, error |-> "no such table", db |-> d]
        ELSE IF ~ ReferentialIntegrity(after)
        THEN [ok |-> FALSE, error |-> "foreign key", db |-> d]
        ELSE [ok |-> TRUE, error |-> "", db |-> after]

\* clear_database with the User table deleted first
ClearOrder_UserFirst == <<"User", "RecallHistory", "UserWord", "Word", "Wordset">>

\* the tables clear_database deletes, in its order
ClearOrder == <<"RecallHistory", "UserWord", "Word", "Wordset", "User">>

\* Wordset.query.filter_by(description=...).first(): the matching row the
\* primary-key scan meets first.
first_wordset(d, description) ==
    CHOOSE ws \in d.Wordset :
        /\ ws.description = description
        /\ \A o \in d.Wordset :
             o.description = description => ws.wordset_id <= o.wordset_id

\* create_test_word, first commit: the user.  A taken email raises.
add_user(d, user_email) ==
    LET u == commit_insert(d.User, user_email)
    IN  [ok |-> u.ok, db |-> [d EXCEPT !.User = u.db]]

\* create_test_word, second commit: the wordset
add_wordset(d, word_description) ==
    [d EXCEPT !.Wordset = @ \cup {[wordset_id |-> d.nextId.wordset,
                                    description |-> word_description]},
              !.nextId.wordset = @ + 1]

\* create_test_word, third commit: the word, of the wordset fetched by its
\* description, under the given name or a generated one
new_word(d, word_description, word_name) ==
    [word_id |-> d.nextId.word,
     word |-> IF word_name = NoWordName
              THEN GeneratedNames[d.nextId.word]
              ELSE word_name,
     wordset_id |-> first_wordset(d, word_description).wordset_id,
     def1 |-> "Definition 1", def2 |-> "Definition 2"]

add_word(d, word_description, word_name) ==
    [d EXCEPT !.Word = @ \cup {new_word(d, word_description, word_name)},
              !.nextId.word = @ + 1]

\* create_test_userword, last commit: the userword of the user and the word
add_userword(d, user_email, word_id) ==
    [d EXCEPT !.UserWord = @ \cup {[user_id |-> user_email, word_id |-> word_id,
                                    is_included |-> TRUE, recall_state |-> 1]}]

\* create_test_word as a whole: its three commits in turn
create_test_word(d, user_email, word_description, word_name) ==
    LET u == add_user(d, user_email)
        d2 == add_wordset(u.db, word_description)
        word == new_word(d2, word_description, word_name)
        d3 == add_word(d2, word_description, word_name)
    IN  IF ~ u.ok
        THEN [ok |-> FALSE, db |-> d, user |-> None, word |-> None]
        ELSE [ok |-> TRUE, db |-> d3, user |-> [email |-> user_email], word |-> word]

\* create_test_userword as a whole
create_test_userword(d, user_email, word_description, word_name) ==
    LET w == create_test_word(d, user_email, word_description, word_name)
    IN  IF ~ w.ok
        THEN w
        ELSE [w EXCEPT !.db = add_userword(w.db, w.user.email, w.word.word_id)]

\* a recall of a word by a user is recorded
add_recall_history(d, user_id, word_id) ==
    [d EXCEPT !.RecallHistory = @ \cup {[user_id |-> user_id, word_id |-> word_id]}]

\* DROP DATABASE IF EXISTS temp_db_name: the tables and their counters go
drop_database(d) ==
    [User |-> <<>>, Wordset |-> {}, Word |-> {}, UserWord |-> {},
     RecallHistory |-> {}, nextId |-> [wordset |-> 1, word |-> 1],
     schema |-> "dropped", name |-> d.name]

\* CREATE DATABASE IF NOT EXISTS db_name; USE db_name.  A database of that name
\* that exists is kept as it is, rows and counters included; otherwise a new
\* one, without a table yet.
create_database(d, db_name) ==
    IF d.schema = "created" /\ d.name = db_name
    THEN d
    ELSE [User |-> <<>>, Wordset |-> {}, Word |-> {}, UserWord |-> {},
          RecallHistory |-> {}, nextId |-> [wordset |-> 1, word |-> 1],
          schema |-> "empty", name |-> db_name]

\* run_sql_script: the database, then the statements of the schema script.  In
\* a new database they create the five tables.  In a database that has them, a
\* script of CREATE TABLE IF NOT EXISTS does nothing and a script of plain
\* CREATE TABLE raises at its first statement; the rows stay either way.
run_sql_script(d, db_name, if_not_exists) ==
    LET used == create_database(d, db_name)
    IN  IF used.schema = "created"
        THEN [ok |-> if_not_exists, db |-> used]
        ELSE [ok |-> TRUE, db |-> [used EXCEPT !.schema = "created"]]

\* setup_test_app: the database named by the clock, initialised by the script
setup_test_app(d, timestamp, if_not_exists) ==
    run_sql_script(d, generate_temp_db_name(timestamp), if_not_exists)

SetDB(d) ==
    /\ User' = d.User
    /\ Wordset' = d.Wordset
    /\ Word' = d.Word
    /\ UserWord' = d.UserWord
    /\ RecallHistory' = d.RecallHistory
    /\ nextId' = d.nextId
    /\ schema' = d.schema
    /\ temp_db_name' = d.name

\* between calls: clear_database is not running and no factory is
AtRest == clearPc \in {0, 7, 8, 9} /\ call = NoCall

\* a factory is called and makes its first commit, the user's; when that raises
\* the call is over
CommitUser ==
    /\ AtRest
    /\ schema = "created"
    /\ nextId.wordset <= MaxId /\ nextId.word <= MaxId
    /\ \E fn \in {"create_test_word", "create_test_userword"},
          e \in Emails, desc \in Descriptions, name \in WordNames \cup {NoWordName} :
         LET u == add_user(DB, e)
         IN  /\ SetDB(u.db)
             /\ call' = IF u.ok
                        THEN [fn |-> fn, at |-> "wordset", user_email |-> e,
                              word_description |-> desc, word_name |-> name,
                              word_id |-> 0]
                        ELSE NoCall
    /\ clearPc' = 0
    /\ UNCHANGED <<routeVars, clock, saved>>

CommitWordset ==
    /\ call.fn # "none" /\ call.at = "wordset"
    /\ SetDB(add_wordset(DB, call.word_description))
    /\ call' = [call EXCEPT !.at = "word"]
    /\ UNCHANGED <<routeVars, clock, clearPc, saved>>

\* the word's commit; create_test_word returns after it
CommitWord ==
    /\ call.fn # "none" /\ call.at = "word"
    /\ SetDB(add_word(DB, call.word_description, call.word_name))
    /\ call' = IF call.fn = "create_test_word"
               THEN NoCall
               ELSE [call EXCEPT !.at = "userword", !.word_id = nextId.word]
    /\ UNCHANGED <<routeVars, clock, clearPc, saved>>

CommitUserword ==
    /\ call.fn # "none" /\ call.at = "userword"
    /\ SetDB(add_userword(DB, call.user_email, call.word_id))
    /\ call' = NoCall
    /\ UNCHANGED <<routeVars, clock, clearPc, saved>>

AddRecallHistory ==
    /\ AtRest
    /\ \E uw \in UserWord :
         SetDB(add_recall_history(DB, uw.user_id, uw.word_id))
    /\ clearPc' = 0
    /\ UNCHANGED <<routeVars, clock, call, saved>>

\* clear_database is called: its statements run in one transaction
ClearBegin ==
    /\ AtRest
    /\ clearPc' = 1
    /\ saved' = DB
    /\ UNCHANGED <<User, routeVars, tableVars, schema, temp_db_name, clock, call>>

\* the next delete of clear_database; a refused delete is the exception: the
\* transaction is rolled back and the exception raised again
ClearDelete ==
    /\ clearPc \in 1..Len(ClearOrder)
    /\ LET r == query_delete(DB, ClearOrder[clearPc])
       IN  IF r.ok
           THEN SetDB(r.db) /\ clearPc' = clearPc + 1
           ELSE SetDB(saved) /\ clearPc' = IF r.error = "foreign key" THEN 8 ELSE 9
    /\ UNCHANGED <<routeVars, clock, call, saved>>

\* db.session.commit()
ClearCommit ==
    /\ clearPc = Len(ClearOrder) + 1
    /\ clearPc' = 7
    /\ UNCHANGED <<User, routeVars, tableVars, schema, temp_db_name, clock, call,
                   saved>>

\* teardown_test_db
TeardownTestDb ==
    /\ AtRest
    /\ SetDB(drop_database(DB))
    /\ clearPc' = 0
    /\ saved' = None
    /\ UNCHANGED <<routeVars, clock, call>>

\* setup_test_app is called, with a schema script of either form; it returns or
\* raises the script's error
SetupTestApp ==
    /\ AtRest
    /\ \E if_not_exists \in BOOLEAN :
         SetDB(setup_test_app(DB, clock, if_not_exists).db)
    /\ clearPc' = 0
    /\ saved' = None
    /\ UNCHANGED <<routeVars, clock, call>>

\* a second of the clock passes
Tick ==
    /\ clock < MaxClock
    /\ clock' = clock + 1
    /\ UNCHANGED <<User, routeVars, tableVars, schema, temp_db_name, call, clearPc,
                   saved>>

InitClear ==
    /\ FreshDatabase
    /\ pending = EmptyBag
    /\ last = NoRequest

NextClear ==
    \/ CommitUser
    \/ CommitWordset
    \/ CommitWord
    \/ CommitUserword
    \/ AddRecallHistory
    \/ ClearBegin
    \/ ClearDelete
    \/ ClearCommit
    \/ TeardownTestDb
    \/ SetupTestApp
    \/ Tick

SpecClear == InitClear /\ [][NextClear]_vars

AllEmpty(d) ==
    /\ d.User = <<>> /\ d.Wordset = {} /\ d.Word = {}
    /\ d.UserWord = {} /\ d.RecallHistory = {}

AllPopulated(d) ==
    /\ d.User # <<>> /\ d.Wordset # {} /\ d.Word # {}
    /\ d.UserWord # {} /\ d.RecallHistory # {}

\* C8: clear_database deletes RecallHistory, UserWord, Word, Wordset, User in
\* that order; no delete is refused for a foreign key, every row's references
\* exist in every intermediate state, and when it returns the five tables are empty.
C8_ClearOrder ==
    /\ clearPc # 8
    /\ clearPc \in 2..6 => RecallHistory = {}
    /\ clearPc \in 3..6 => UserWord = {}
    /\ clearPc \in 4..6 => Word = {}
    /\ clearPc \in 5..6 => Wordset = {}
    /\ clearPc = 6 => User = <<>>
    /\ ReferentialIntegrity(DB)
    /\ clearPc = 7 => AllEmpty(DB)

\* clear_database returned after a transaction that began with rows in all
\* five tables
C8_Witness ==
    /\ clearPc = 7
    /\ AllPopulated(saved)
    /\ AllEmpty(DB)

====
